---- MODULE Spec2Model ----
(***************************************************************************)
(* Recorder / playback screens of expo-audio-video-conflict.               *)
(*                                                                         *)
(* variant 1 is src/App.tsx (record, save to an in-memory list, play),     *)
(* variant 2 is src/unnamed/part_000 (login gate, record, upload).         *)
(*                                                                         *)
(* Every async handler is a task that suspends at each `await`; the part   *)
(* of a handler between two awaits is one atomic step (single-threaded     *)
(* event loop).  The expo-audio recorder, the players, the clock and the   *)
(* backend are the environment: where the source does not fix what they    *)
(* answer, the answer is a nondeterministic choice.                        *)
(***************************************************************************)
EXTENDS Integers, Sequences, FiniteSets, Bags

VARIABLES
    variant,        \* 1: src/App.tsx, 2: src/unnamed/part_000
    videoEnabled,   \* useState(true), variant 1
    recordings,     \* useState<Recording[]>([]), most recent first
    playingId,      \* useState<number | null>(null)
    players,        \* players[k]: the useAudioPlayer of the item shown as #k
    recorder,       \* the audioRecorder object (expo-audio) and its status
    audioMode,      \* last mode handed to setAudioModeAsync
    fileCount,      \* files created by prepareToRecordAsync so far
    now,            \* Date.now()
    tasks,          \* async handlers suspended at an await
    alert,          \* the Alert currently shown (modal)
    taps,           \* presses of the screen's controls so far
    event,          \* the recorder control (record, save, cancel) the last step entered
    session,        \* useState<Session | null>(null), variant 2
    isLoading,      \* useState(false), variant 2
    isUploading,    \* useState(false), variant 2
    fmtIn,          \* argument of the last formatTime call of the timer
    fmtOut          \* its result

vars == <<variant, videoEnabled, recordings, playingId, players, recorder,
          audioMode, fileCount, now, tasks, alert, taps, event,
          session, isLoading, isUploading, fmtIn, fmtOut>>

(***************************************************************************)
(* Bounds of the model.                                                    *)
(***************************************************************************)
MaxTicks == 2        \* recorder clock ticks within one recording session
TickMillis == 750    \* milliseconds of capture per recorder clock tick
MaxTaps == 5         \* presses of the screen's controls in one run
MaxSeconds == 3700   \* largest argument of formatTime that is tried

(***************************************************************************)
(* Values.                                                                 *)
(***************************************************************************)
Undefined == -1      \* durationMillis === undefined
Null == 0            \* null (uri, playingId); file uris and ids are >= 1
NoAlert == "none"
BlobSizes == {1536}  \* blob.size in bytes, as the file system reports it

(***************************************************************************)
(* Helpers.                                                                *)
(***************************************************************************)
\* Math.floor(x / y) and Math.round(x / y) for integers x >= 0, y > 0.
MathFloorDiv(x, y) == x \div y
MathRoundDiv(x, y) == (2 * x + y) \div (2 * y)

\* JavaScript truthiness of `number | undefined`.
Truthy(d) == d # Undefined /\ d # 0

\* if (!recorderState.durationMillis || recorderState.durationMillis === 0)
NoDurationUndefinedOnly(st) == st.durationMillis = Undefined
NoDuration(st) == ~Truthy(st.durationMillis) \/ st.durationMillis = 0

\* if (recorderState.durationMillis && recorderState.durationMillis > 0)
HasDurationAlways(st) == TRUE
HasDuration(st) == Truthy(st.durationMillis) /\ st.durationMillis > 0

Task(op, pc, duration, uri, item) ==
    [op |-> op, pc |-> pc, duration |-> duration, uri |-> uri, item |-> item]

(***************************************************************************)
(* The recorder of expo-audio, as the handlers use it.                     *)
(***************************************************************************)
\* audioRecorder.prepareToRecordAsync(options): a new file, duration 0.
Prepared(r) == [isRecording |-> FALSE, durationMillis |-> 0]

\* audioRecorder.record(): capture starts or goes on.
Record(r) == [r EXCEPT !.isRecording = TRUE]

\* audioRecorder.pause()
Paused(r) == [r EXCEPT !.isRecording = FALSE]

\* audioRecorder.stop(): capture ends and the duration counter returns to 0.
Stopped(r) == [r EXCEPT !.isRecording = FALSE, !.durationMillis = 0]

\* const recorderState = useAudioRecorderState(audioRecorder): the status of
\* the recorder as of the render whose handlers run (the screen is rendered
\* again after every step).
recorderState == recorder

\* audioRecorder.uri (string | null): the file of the last prepare, which the
\* recorder may fail to report.
RecorderUris == {IF fileCount = 0 THEN Null ELSE fileCount, Null}

(***************************************************************************)
(* Pure functions of the source.                                           *)
(***************************************************************************)
Digit(n) == CASE n = 0 -> "0" [] n = 1 -> "1" [] n = 2 -> "2" [] n = 3 -> "3"
              [] n = 4 -> "4" [] n = 5 -> "5" [] n = 6 -> "6" [] n = 7 -> "7"
              [] n = 8 -> "8" [] n = 9 -> "9"

\* Number.prototype.toString() of a non-negative integer, as a sequence of
\* one-character strings.
RECURSIVE toString(_)
toString(n) == IF n < 10 THEN <<Digit(n)>>
               ELSE Append(toString(n \div 10), Digit(n % 10))

\* String.prototype.padStart(len, "0")
RECURSIVE padStart(_, _)
padStart(str, len) == IF Len(str) >= len THEN str ELSE padStart(<<"0">> \o str, len)

formatTimeHours(seconds) ==
    LET mins == MathFloorDiv(seconds, 60) % 60
        secs == seconds % 60
    IN  padStart(toString(mins), 2) \o <<":">> \o padStart(toString(secs), 2)

formatTime(seconds) ==
    LET mins == MathFloorDiv(seconds, 60)
        secs == seconds % 60
    IN  padStart(toString(mins), 2) \o <<":">> \o padStart(toString(secs), 2)

\* const durationSeconds = recorderState.durationMillis ? Math.floor(.. / 1000) : 0
durationSeconds ==
    IF Truthy(recorderState.durationMillis)
    THEN MathFloorDiv(recorderState.durationMillis, 1000)
    ELSE 0

\* duration: Math.round(duration / 1000)
RecordingDuration(duration) == MathRoundDiv(duration, 1000)

\* const fileSizeKB = Math.round(blob.size / 1024)
FileSizeKB(size) == MathRoundDiv(size, 1024)

\* const newRecording: Recording = { id: Date.now(), uri, duration, fileSize }
NewRecording(t, size) ==
    [id |-> now, uri |-> t.uri, duration |-> RecordingDuration(t.duration),
     fileSize |-> FileSizeKB(size)]

\* setRecordings((prev) => [newRecording, ...prev])
PrependAtEnd(rec, prev) == prev \o <<rec>>
Prepend(rec, prev) == <<rec>> \o prev

\* The Recording rendered as item #k: index={recordings.length - index}.
ItemAt(k) == recordings[Len(recordings) - k + 1]

\* isPlaying={playingId === rec.id}
isPlaying(k) == playingId = ItemAt(k).id

(***************************************************************************)
(* Initial state: App() is mounted and its mount effects have run: the     *)
(* permission request (Alert when denied), setAudioModeAsync (which may    *)
(* have been rejected) and, in variant 2, getSession().then(setSession).   *)
(***************************************************************************)
Init ==
    /\ variant \in {1, 2}
    /\ videoEnabled = TRUE
    /\ recordings = <<>>
    /\ playingId = Null
    /\ players = <<>>
    /\ recorder \in {[isRecording |-> FALSE, durationMillis |-> d] : d \in {Undefined, 0}}
    /\ audioMode \in {"recording", "unset"}
    /\ fileCount = 0
    /\ now = 1
    /\ tasks = EmptyBag
    /\ alert \in {NoAlert, "Permission denied"}
    /\ taps = 0
    /\ event = "-"
    /\ session \in (IF variant = 2 THEN BOOLEAN ELSE {FALSE})
    /\ isLoading = FALSE
    /\ isUploading = FALSE
    /\ fmtIn = 0
    /\ fmtOut = <<>>

listVars == <<recordings, playingId, players>>
authVars == <<session, isLoading, isUploading>>
fixedVars == <<variant, fmtIn, fmtOut>>
clockVars == <<fileCount, now>>

\* A handler reaches its first await.
Spawn(t) == tasks' = tasks (+) SetToBag({t})

\* The user presses a control and its handler h is entered.
Pressed(h) == taps < MaxTaps /\ taps' = taps + 1 /\ event' = h

\* A step that is not the press of a control.
Stepped == event' = "-" /\ UNCHANGED taps

\* The handler t runs on to its end / to its next await, as task t2.
Done(t) == tasks (-) SetToBag({t})
Become(t, t2) == Done(t) (+) SetToBag({t2})

\* Date.now() after time has passed.  Timestamps are only compared for
\* equality (ids), so the clock moves on exactly when its present value has
\* been used as an id.
Later == IF \E i \in 1..Len(recordings) : recordings[i].id = now THEN now + 1 ELSE now

(***************************************************************************)
(* Environment: the recorder's clock, the polling hook, the wall clock.    *)
(***************************************************************************)
\* The recorder's duration counter advances while it captures.
RecorderTick ==
    /\ recorder.isRecording
    /\ recorder.durationMillis < MaxTicks * TickMillis
    /\ recorder' = [recorder EXCEPT !.durationMillis = @ + TickMillis]
    /\ now' = Later
    /\ Stepped
    /\ UNCHANGED <<videoEnabled, listVars,  audioMode, fileCount, tasks,
                   alert, authVars, fixedVars>>

\* Time passes between two reads of Date.now().
TimePasses ==
    /\ Later # now
    /\ now' = Later
    /\ Stepped
    /\ UNCHANGED <<videoEnabled, listVars, recorder,  audioMode,
                   fileCount, tasks, alert, authVars, fixedVars>>

\* The user closes the Alert that is shown.
DismissAlert ==
    /\ alert \notin {NoAlert, "Cancel recording?"}
    /\ alert' = NoAlert
    /\ Stepped
    /\ UNCHANGED <<videoEnabled, listVars, recorder,  audioMode,
                   clockVars, tasks, authVars, fixedVars>>

(***************************************************************************)
(* handleRecord: start / pause / resume (identical in both variants).      *)
(***************************************************************************)
\* The branch handleRecord takes for the recorderState of its render.
RecordBranchRestart(st) ==
    IF st.durationMillis = Undefined \/ st.durationMillis = 0 \/ ~st.isRecording
    THEN "start"
    ELSE "pause"

RecordBranch(st) ==
    IF st.durationMillis = Undefined \/ st.durationMillis = 0 THEN "start"
    ELSE IF st.isRecording THEN "pause"
    ELSE "resume"

handleRecord ==
    /\ Pressed("handleRecord")
    /\ CASE RecordBranch(recorderState) = "start" ->
              /\ Spawn(Task("record", "mode", 0, Null, 0))
              /\ UNCHANGED recorder
         [] RecordBranch(recorderState) = "pause" ->
              /\ recorder' = Paused(recorder)
              /\ UNCHANGED tasks
         [] RecordBranch(recorderState) = "resume" ->
              /\ recorder' = Record(recorder)
              /\ UNCHANGED tasks
    /\ UNCHANGED <<videoEnabled, listVars,  audioMode, clockVars,
                   alert, authVars, fixedVars>>

\* await setAudioModeAsync({ playsInSilentMode, allowsRecording: true, .. })
RecordMode(t) ==
    /\ t.op = "record" /\ t.pc = "mode"
    /\ audioMode' = "recording"
    /\ tasks' = Become(t, [t EXCEPT !.pc = "prepare"])
    /\ Stepped
    /\ UNCHANGED <<videoEnabled, listVars, recorder,  clockVars,
                   alert, authVars, fixedVars>>

\* await audioRecorder.prepareToRecordAsync({..}); audioRecorder.record()
RecordPrepare(t) ==
    /\ t.op = "record" /\ t.pc = "prepare"
    /\ fileCount' = fileCount + 1
    /\ recorder' = Record(Prepared(recorder))
    /\ tasks' = Done(t)
    /\ Stepped
    /\ UNCHANGED <<videoEnabled, listVars,  audioMode, now,
                   alert, authVars, fixedVars>>

\* catch (error): setAudioModeAsync or prepareToRecordAsync rejected.
RecordFailsStarted(t) ==
    /\ t.op = "record"
    /\ alert' = "Recording failed"
    /\ recorder' = Record(recorder)
    /\ tasks' = Done(t)
    /\ Stepped
    /\ UNCHANGED <<videoEnabled, listVars, audioMode, clockVars, authVars, fixedVars>>

RecordFails(t) ==
    /\ t.op = "record"
    /\ alert' = "Recording failed"
    /\ tasks' = Done(t)
    /\ Stepped
    /\ UNCHANGED <<videoEnabled, listVars, recorder,  audioMode,
                   clockVars, authVars, fixedVars>>

(***************************************************************************)
(* handleSave, variant 1: stop, read the file, prepend a Recording.        *)
(***************************************************************************)
handleSave ==
    /\ Pressed("handleSave")
    /\ IF NoDuration(recorderState)
       THEN /\ alert' = "No recording"
            /\ UNCHANGED tasks
       ELSE /\ Spawn(Task("save", "stop", recorderState.durationMillis, Null, 0))
            /\ UNCHANGED alert
    /\ UNCHANGED <<videoEnabled, listVars, recorder,  audioMode,
                   clockVars, authVars, fixedVars>>

\* await audioRecorder.stop(); const recordingURI = audioRecorder.uri
SaveStop(t) ==
    /\ t.op = "save" /\ t.pc = "stop"
    /\ recorder' = Stopped(recorder)
    /\ \E recordingURI \in RecorderUris :
          IF recordingURI = Null
          THEN /\ alert' = "Error: No recording URI found"
               /\ tasks' = Done(t)
          ELSE /\ tasks' = Become(t, [t EXCEPT !.pc = "fetch", !.uri = recordingURI])
               /\ UNCHANGED alert
    /\ Stepped
    /\ UNCHANGED <<videoEnabled, listVars,  audioMode, clockVars,
                   authVars, fixedVars>>

\* await fetch(recordingURI); await response.blob(); setRecordings(..)
SaveFetch(t) ==
    /\ t.op = "save" /\ t.pc = "fetch"
    /\ \E size \in BlobSizes :
          recordings' = Prepend(NewRecording(t, size), recordings)
    /\ players' = Append(players, "idle")
    /\ tasks' = Done(t)
    /\ Stepped
    /\ UNCHANGED <<videoEnabled, playingId, recorder,  audioMode,
                   clockVars, alert, authVars, fixedVars>>

\* catch (error): stop(), fetch() or blob() rejected.
SaveFailsRestarts(t) ==
    /\ t.op = "save"
    /\ alert' = "Error: Failed to save recording"
    /\ recorder' = Record(recorder)
    /\ tasks' = Done(t)
    /\ Stepped
    /\ UNCHANGED <<videoEnabled, listVars, audioMode, clockVars, authVars, fixedVars>>

SaveFails(t) ==
    /\ t.op = "save"
    /\ alert' = "Error: Failed to save recording"
    /\ tasks' = Done(t)
    /\ Stepped
    /\ UNCHANGED <<videoEnabled, listVars, recorder,  audioMode,
                   clockVars, authVars, fixedVars>>

(***************************************************************************)
(* handleCancel, variant 1: stop and discard.                              *)
(***************************************************************************)
handleCancel ==
    /\ Pressed("handleCancel")
    /\ IF HasDuration(recorderState)
       THEN Spawn(Task("cancel", "stop", 0, Null, 0))
       ELSE UNCHANGED tasks
    /\ UNCHANGED <<videoEnabled, listVars, recorder,  audioMode,
                   clockVars, alert, authVars, fixedVars>>

\* await audioRecorder.stop() of handleCancel (variant 1) and of the prompt's
\* Delete button (variant 2); a rejection is unhandled.
CancelStop(t) ==
    /\ t.op = "cancel"
    /\ recorder' \in {Stopped(recorder), recorder}
    /\ tasks' = Done(t)
    /\ Stepped
    /\ UNCHANGED <<videoEnabled, listVars,  audioMode, clockVars,
                   alert, authVars, fixedVars>>

(***************************************************************************)
(* Variant 1: the video switch and the RecordingItem components.           *)
(***************************************************************************)
\* <Switch value={videoEnabled} onValueChange={setVideoEnabled} />
setVideoEnabledResets(value) ==
    /\ Pressed("-")
    /\ videoEnabled' = value
    /\ playingId' = Null
    /\ UNCHANGED <<recordings, players, recorder, audioMode, clockVars, tasks,
                   alert, authVars, fixedVars>>

setVideoEnabled(value) ==
    /\ Pressed("-")
    /\ videoEnabled' = value
    /\ UNCHANGED <<listVars, recorder,  audioMode, clockVars, tasks,
                   alert, authVars, fixedVars>>

\* player.pause()
PlayerPaused(p) == IF p = "playing" THEN "idle" ELSE p

\* RecordingItem.handlePress of item #k.
handlePress(k) ==
    /\ Pressed("-")
    /\ IF isPlaying(k)
       THEN /\ players' = [players EXCEPT ![k] = PlayerPaused(@)]
            /\ playingId' = Null
            /\ UNCHANGED tasks
       ELSE /\ Spawn(Task("play", "mode", 0, Null, k))
            /\ UNCHANGED <<players, playingId>>
    /\ UNCHANGED <<videoEnabled, recordings, recorder,  audioMode,
                   clockVars, alert, authVars, fixedVars>>

\* await setAudioModeAsync({ allowsRecording: false }); player.seekTo(0);
\* player.play(); onPlay()
PlayStart(t) ==
    /\ t.op = "play"
    /\ audioMode' = "playback"
    /\ players' = [players EXCEPT ![t.item] = "playing"]
    /\ playingId' = ItemAt(t.item).id
    /\ tasks' = Done(t)
    /\ Stepped
    /\ UNCHANGED <<videoEnabled, recordings, recorder,  clockVars,
                   alert, authVars, fixedVars>>

\* setAudioModeAsync rejected inside handlePress: no catch, the handler ends.
PlayFails(t) ==
    /\ t.op = "play"
    /\ tasks' = Done(t)
    /\ Stepped
    /\ UNCHANGED <<videoEnabled, listVars, recorder,  audioMode,
                   clockVars, alert, authVars, fixedVars>>

\* The player of item #k reaches the end of its file.
PlayerEnds(k) ==
    /\ players[k] = "playing"
    /\ players' = [players EXCEPT ![k] = "ended"]
    /\ Stepped
    /\ UNCHANGED <<videoEnabled, recordings, playingId, recorder, 
                   audioMode, clockVars, tasks, alert, authVars, fixedVars>>

\* useEffect: if (isPlaying && player.duration > 0 &&
\*                player.currentTime >= player.duration) onStop()
EndedEffect(k) ==
    /\ isPlaying(k) /\ players[k] = "ended"
    /\ playingId' = Null
    /\ Stepped
    /\ UNCHANGED <<videoEnabled, recordings, players, recorder, 
                   audioMode, clockVars, tasks, alert, authVars, fixedVars>>

(***************************************************************************)
(* Variant 2: login gate, upload, cancel prompt.                           *)
(***************************************************************************)
\* handleLogin; email and password are what the user typed.
handleLogin(email, password) ==
    /\ Pressed("-")
    /\ IF email = "" \/ password = ""
       THEN /\ alert' = "Error: Please enter email and password"
            /\ UNCHANGED <<tasks, isLoading>>
       ELSE /\ isLoading' = TRUE
            /\ Spawn(Task("login", "signIn", 0, Null, 0))
            /\ UNCHANGED alert
    /\ UNCHANGED <<videoEnabled, listVars, recorder,  audioMode,
                   clockVars, session, isUploading, fixedVars>>

\* await supabase.auth.signInWithPassword(..) resolved; on success the auth
\* service has called the onAuthStateChange listener; finally setIsLoading(false).
LoginResolved(t) ==
    /\ t.op = "login"
    /\ \E error \in BOOLEAN :
          /\ alert' = IF error THEN "Login failed" ELSE alert
          /\ session' = IF error THEN session ELSE TRUE
    /\ isLoading' = FALSE
    /\ tasks' = Done(t)
    /\ Stepped
    /\ UNCHANGED <<videoEnabled, listVars, recorder,  audioMode,
                   clockVars, isUploading, fixedVars>>

\* catch (err) of handleLogin; finally setIsLoading(false).
LoginThrows(t) ==
    /\ t.op = "login"
    /\ alert' = "Error: Login failed"
    /\ isLoading' = FALSE
    /\ tasks' = Done(t)
    /\ Stepped
    /\ UNCHANGED <<videoEnabled, listVars, recorder,  audioMode,
                   clockVars, session, isUploading, fixedVars>>

\* handleLogout: await supabase.auth.signOut()
handleLogout ==
    /\ Pressed("-")
    /\ Spawn(Task("logout", "signOut", 0, Null, 0))
    /\ UNCHANGED <<videoEnabled, listVars, recorder,  audioMode,
                   clockVars, alert, authVars, fixedVars>>

\* signOut() resolved; the onAuthStateChange listener has cleared the session
\* unless the call failed.
LogoutResolved(t) ==
    /\ t.op = "logout"
    /\ \E ok \in BOOLEAN : session' = IF ok THEN FALSE ELSE session
    /\ tasks' = Done(t)
    /\ Stepped
    /\ UNCHANGED <<videoEnabled, listVars, recorder,  audioMode,
                   clockVars, alert, isLoading, isUploading, fixedVars>>

\* handleSave of variant 2.
handleSave2 ==
    /\ Pressed("handleSave")
    /\ IF NoDuration(recorderState)
       THEN /\ alert' = "No recording"
            /\ UNCHANGED <<tasks, isUploading>>
       ELSE /\ isUploading' = TRUE
            /\ Spawn(Task("upload", "stop", 0, Null, 0))
            /\ UNCHANGED alert
    /\ UNCHANGED <<videoEnabled, listVars, recorder,  audioMode,
                   clockVars, session, isLoading, fixedVars>>

\* await audioRecorder.stop(); const recordingURI = audioRecorder.uri;
\* without a uri: Alert, return, finally setIsUploading(false).
UploadStopEarlyReturn(t) ==
    /\ t.op = "upload" /\ t.pc = "stop"
    /\ recorder' = Stopped(recorder)
    /\ \E recordingURI \in RecorderUris :
          IF recordingURI = Null
          THEN /\ alert' = "Error: No recording URI found"
               /\ tasks' = Done(t)
          ELSE /\ tasks' = Become(t, [t EXCEPT !.pc = "file", !.uri = recordingURI])
               /\ UNCHANGED alert
    /\ Stepped
    /\ UNCHANGED <<videoEnabled, listVars, audioMode, clockVars,
                   authVars, fixedVars>>

UploadStop(t) ==
    /\ t.op = "upload" /\ t.pc = "stop"
    /\ recorder' = Stopped(recorder)
    /\ \E recordingURI \in RecorderUris :
          IF recordingURI = Null
          THEN /\ alert' = "Error: No recording URI found"
               /\ isUploading' = FALSE
               /\ tasks' = Done(t)
          ELSE /\ tasks' = Become(t, [t EXCEPT !.pc = "file", !.uri = recordingURI])
               /\ UNCHANGED <<alert, isUploading>>
    /\ Stepped
    /\ UNCHANGED <<videoEnabled, listVars,  audioMode, clockVars,
                   session, isLoading, fixedVars>>

\* const audioFile = await getAudioFile(recordingURI); formData.append(..)
UploadFile(t) ==
    /\ t.op = "upload" /\ t.pc = "file"
    /\ tasks' = Become(t, [t EXCEPT !.pc = "invoke"])
    /\ Stepped
    /\ UNCHANGED <<videoEnabled, listVars, recorder,  audioMode,
                   clockVars, alert, authVars, fixedVars>>

\* await supabase.functions.invoke("upload-audio", ..) resolved;
\* finally setIsUploading(false).
UploadInvoke(t) ==
    /\ t.op = "upload" /\ t.pc = "invoke"
    /\ \E error \in BOOLEAN : alert' = IF error THEN "Upload failed" ELSE "Success"
    /\ isUploading' = FALSE
    /\ tasks' = Done(t)
    /\ Stepped
    /\ UNCHANGED <<videoEnabled, listVars, recorder,  audioMode,
                   clockVars, session, isLoading, fixedVars>>

\* catch (error) of handleSave; finally setIsUploading(false).
UploadFails(t) ==
    /\ t.op = "upload"
    /\ alert' = "Error: Failed to save recording"
    /\ isUploading' = FALSE
    /\ tasks' = Done(t)
    /\ Stepped
    /\ UNCHANGED <<videoEnabled, listVars, recorder,  audioMode,
                   clockVars, session, isLoading, fixedVars>>

\* handleCancel of variant 2: a confirmation prompt.
handleCancel2 ==
    /\ Pressed("handleCancel")
    /\ alert' = IF HasDuration(recorderState)
                THEN "Cancel recording?"
                ELSE alert
    /\ UNCHANGED <<videoEnabled, listVars, recorder,  audioMode,
                   clockVars, tasks, authVars, fixedVars>>

\* { text: "Keep recording", style: "cancel" }
PromptKeep ==
    /\ alert = "Cancel recording?"
    /\ alert' = NoAlert
    /\ Stepped
    /\ UNCHANGED <<videoEnabled, listVars, recorder,  audioMode,
                   clockVars, tasks, authVars, fixedVars>>

\* { text: "Delete", onPress: async () => { await audioRecorder.stop(); } }
PromptDelete ==
    /\ alert = "Cancel recording?"
    /\ alert' = NoAlert
    /\ Spawn(Task("cancel", "stop", 0, Null, 0))
    /\ Pressed("-")
    /\ UNCHANGED <<videoEnabled, listVars, recorder,  audioMode,
                   clockVars, authVars, fixedVars>>

(***************************************************************************)
(* What the rendered screen lets the user do.                              *)
(***************************************************************************)
\* An Alert is modal: no control of the screen can be tapped under it.
Interactive == alert = NoAlert

\* if (!session) return <login screen>; variant 1 has the recorder screen only.
RecorderScreen == variant = 1 \/ session

\* disabled={durationSeconds === 0}
CancelDisabled == durationSeconds = 0

\* disabled={durationSeconds === 0} / disabled={durationSeconds === 0 || isUploading}
SaveDisabled == durationSeconds = 0 \/ (variant = 2 /\ isUploading)

\* disabled={isLoading}
LoginDisabled == isLoading

Typed == {"", "user"}

save == IF variant = 1 THEN handleSave ELSE handleSave2
cancel == IF variant = 1 THEN handleCancel ELSE handleCancel2

TapRecord == Interactive /\ RecorderScreen /\ handleRecord
TapSave == Interactive /\ RecorderScreen /\ ~SaveDisabled /\ save
TapCancel == Interactive /\ RecorderScreen /\ ~CancelDisabled /\ cancel
TapSwitch == Interactive /\ variant = 1 /\ setVideoEnabled(~videoEnabled)
TapItem == Interactive /\ variant = 1 /\ \E k \in 1..Len(recordings) : handlePress(k)
TapLogin ==
    /\ Interactive /\ variant = 2 /\ ~session /\ ~LoginDisabled
    /\ \E email \in Typed, password \in Typed : handleLogin(email, password)
TapLogout == Interactive /\ variant = 2 /\ session /\ handleLogout

\* A suspended handler resumes after its await.
Continue ==
    \/ \E t \in BagToSet(tasks) : RecordMode(t)
    \/ \E t \in BagToSet(tasks) : RecordPrepare(t)
    \/ \E t \in BagToSet(tasks) : RecordFails(t)
    \/ \E t \in BagToSet(tasks) : SaveStop(t)
    \/ \E t \in BagToSet(tasks) : SaveFetch(t)
    \/ \E t \in BagToSet(tasks) : SaveFails(t)
    \/ \E t \in BagToSet(tasks) : CancelStop(t)
    \/ \E t \in BagToSet(tasks) : PlayStart(t)
    \/ \E t \in BagToSet(tasks) : PlayFails(t)
    \/ \E t \in BagToSet(tasks) : LoginResolved(t)
    \/ \E t \in BagToSet(tasks) : LoginThrows(t)
    \/ \E t \in BagToSet(tasks) : LogoutResolved(t)
    \/ \E t \in BagToSet(tasks) : UploadStop(t)
    \/ \E t \in BagToSet(tasks) : UploadFile(t)
    \/ \E t \in BagToSet(tasks) : UploadInvoke(t)
    \/ \E t \in BagToSet(tasks) : UploadFails(t)

Environment ==
    \/ RecorderTick \/ TimePasses \/ DismissAlert
    \/ PromptKeep \/ PromptDelete
    \/ \E k \in 1..Len(players) : PlayerEnds(k)
    \/ \E k \in 1..Len(players) : EndedEffect(k)

\* The app as the user drives it through the rendered controls.
Next ==
    \/ TapRecord \/ TapSave \/ TapCancel \/ TapSwitch \/ TapItem
    \/ TapLogin \/ TapLogout
    \/ Continue
    \/ Environment

Spec == Init /\ [][Next]_vars

\* The handlers as operations, entered in any state (also where the screen
\* has their button disabled or covered).
CallRecord == handleRecord
CallSave == save
CallCancel == cancel
CallSwitch == variant = 1 /\ \E value \in BOOLEAN : setVideoEnabled(value)
CallItem == variant = 1 /\ \E k \in 1..Len(recordings) : handlePress(k)
CallLogin == variant = 2 /\ \E email \in Typed, password \in Typed : handleLogin(email, password)
CallLogout == variant = 2 /\ handleLogout

NextOps ==
    \/ CallRecord \/ CallSave \/ CallCancel \/ CallSwitch \/ CallItem
    \/ CallLogin \/ CallLogout
    \/ Continue
    \/ Environment

SpecOps == Init /\ [][NextOps]_vars

(***************************************************************************)
(* Progress: every awaited call of handleSave (variant 2) and of           *)
(* handleLogin settles, by resolving or by rejecting, so the handler       *)
(* suspended at it is resumed.                                             *)
(***************************************************************************)
UploadStep ==
    \E t \in BagToSet(tasks) :
        UploadStop(t) \/ UploadFile(t) \/ UploadInvoke(t) \/ UploadFails(t)

LoginStep ==
    \E t \in BagToSet(tasks) : LoginResolved(t) \/ LoginThrows(t)

Fairness == WF_vars(UploadStep) /\ WF_vars(LoginStep)

SpecLive == Init /\ [][Next]_vars /\ Fairness

(***************************************************************************)
(* The timer text: formatTime applied to whole seconds.                    *)
(***************************************************************************)
InitFormat ==
    /\ variant \in {1, 2}
    /\ videoEnabled = TRUE
    /\ recordings = <<>>
    /\ playingId = Null
    /\ players = <<>>
    /\ recorder = [isRecording |-> FALSE, durationMillis |-> 0]
    /\ audioMode = "recording"
    /\ fileCount = 0
    /\ now = 1
    /\ tasks = EmptyBag
    /\ alert = NoAlert
    /\ taps = 0
    /\ event = "-"
    /\ session = FALSE
    /\ isLoading = FALSE
    /\ isUploading = FALSE
    /\ fmtIn \in 0..MaxSeconds
    /\ fmtOut = <<>>

\* <Text style={styles.timer}>{formatTime(durationSeconds)}</Text>
RenderTimer ==
    /\ fmtOut = <<>>
    /\ fmtOut' = formatTime(fmtIn)
    /\ UNCHANGED <<variant, videoEnabled, recordings, playingId, players, recorder,
                   audioMode, fileCount, now, tasks, alert, taps, event, session,
                   isLoading, isUploading, fmtIn>>

NextFormat == RenderTimer

SpecFormat == InitFormat /\ [][NextFormat]_vars

(***************************************************************************)
(* Properties.                                                             *)
(***************************************************************************)
\* The step enters handler h (a press of its control).
Enters(h) == taps' = taps + 1 /\ event' = h

\* The recorder's elapsed duration is zero or undefined.
ZeroDuration == recorderState.durationMillis \in {0, Undefined}

\* C1: save() entered while the elapsed duration is zero or undefined shows
\* the "No recording" alert and does nothing else: the recorder is not
\* stopped, no handler is left in flight, the Recording list is unchanged
\* (variant 1) and no upload is started (variant 2).
C1_SaveWithoutDuration ==
    [][(Enters("handleSave") /\ ZeroDuration) =>
          /\ alert' = "No recording"
          /\ UNCHANGED <<recorder, tasks, recordings, players, playingId,
                         isUploading, fileCount>>]_vars

C1_Witness ==
    /\ event = "handleSave" /\ alert = "No recording"
    /\ ZeroDuration /\ tasks = EmptyBag /\ ~isUploading

\* C2: the Recording a save prepends has duration floor(d / 1000), d being the
\* elapsed milliseconds the save read.
C2_DurationIsFloor ==
    [][Len(recordings') > Len(recordings) =>
          \E t \in BagToSet(tasks) :
              /\ t.op = "save" /\ tasks' = Done(t)
              /\ recordings'[1].duration = MathFloorDiv(t.duration, 1000)]_vars

\* C3: the Recordings of the list have pairwise distinct ids.
C3_DistinctIds ==
    \A i, j \in 1..Len(recordings) : i # j => recordings[i].id # recordings[j].id

\* C4: cancel() entered while the elapsed duration is zero or undefined
\* changes nothing: no alert or prompt, no stop, no handler in flight, the
\* list and the playing marker as they were.
C4_CancelWithoutDuration ==
    [][(Enters("handleCancel") /\ ZeroDuration) =>
          UNCHANGED <<alert, recorder, tasks, recordings, players, playingId,
                      audioMode, fileCount, videoEnabled, authVars>>]_vars

C4_Witness ==
    /\ event = "handleCancel" /\ ZeroDuration
    /\ alert = NoAlert /\ tasks = EmptyBag

\* C5: a step that flips videoEnabled leaves the recorder, the handlers in
\* flight, the Recording list, the players and the playing marker unchanged.
C5_ToggleFrame ==
    [][videoEnabled' # videoEnabled =>
          UNCHANGED <<recorder, tasks, recordings, players, playingId,
                      audioMode, fileCount, alert, authVars>>]_vars

C5_Witness ==
    /\ ~videoEnabled /\ recorder.isRecording /\ recorder.durationMillis > 0
    /\ Len(recordings) > 0

\* C6: at most one item's player is playing.
C6_OnePlayer == Cardinality({k \in 1..Len(players) : players[k] = "playing"}) <= 1

\* C7: in variant 1 the recorder does not capture while a Recording is
\* marked as playing.
C7_NotRecordingAndPlaying ==
    variant = 1 => ~(recorder.isRecording /\ playingId # Null)

\* C8: the Recording list changes only by gaining one Recording at its head;
\* the Recordings already in it stay, in their order, with their fields.
C8_OnlyPrepend ==
    [][recordings' # recordings =>
          /\ Len(recordings') = Len(recordings) + 1
          /\ Tail(recordings') = recordings
          /\ \E t \in BagToSet(tasks) :
                /\ t.op = "save" /\ t.pc = "fetch"
                /\ recordings'[1].uri = t.uri]_vars

C8_Witness ==
    /\ Len(recordings) = 2
    /\ recordings[1].uri > recordings[2].uri

\* The number a sequence of decimal digits denotes.
DigitValue(c) == CHOOSE n \in 0..9 : Digit(n) = c
RECURSIVE Parse(_)
Parse(str) ==
    IF str = <<>> THEN 0
    ELSE 10 * Parse(SubSeq(str, 1, Len(str) - 1)) + DigitValue(str[Len(str)])

\* C9: formatTime(s) is MM:SS, both fields padded to two digits, with
\* MM = floor(s / 60) (no hour rollover) and SS = s mod 60 in 00..59;
\* formatTime(0) = "00:00", formatTime(65) = "01:05", formatTime(3661) = "61:01".
C9_FormatTime ==
    fmtOut # <<>> =>
        LET n == Len(fmtOut)
            mm == SubSeq(fmtOut, 1, n - 3)
            ss == SubSeq(fmtOut, n - 1, n)
        IN  /\ n >= 5
            /\ fmtOut[n - 2] = ":"
            /\ Len(mm) >= 2 /\ (Len(mm) > 2 => mm[1] # "0")
            /\ Parse(mm) = fmtIn \div 60
            /\ Parse(ss) = fmtIn % 60 /\ Parse(ss) \in 0..59
            /\ (fmtIn = 0 => fmtOut = <<"0", "0", ":", "0", "0">>)
            /\ (fmtIn = 65 => fmtOut = <<"0", "1", ":", "0", "5">>)
            /\ (fmtIn = 3661 => fmtOut = <<"6", "1", ":", "0", "1">>)

C9_Witness == fmtIn = 3661 /\ fmtOut = <<"6", "1", ":", "0", "1">>

\* C10: handleRecord, by what the recorder shows when it is entered:
\*   zero or undefined duration: it goes to configure the audio mode, and
\*     nothing else has happened yet; it then sets the recording mode, and
\*     only then prepares one new file and starts capture at duration 0;
\*   nonzero duration, recording: it pauses and does nothing else;
\*   nonzero duration, not recording: it resumes and does nothing else.
\* A new file is prepared by no other step.
C10_RecordStateMachine ==
    [][/\ (Enters("handleRecord") /\ ZeroDuration) =>
              /\ tasks' = tasks (+) SetToBag({Task("record", "mode", 0, Null, 0)})
              /\ UNCHANGED <<recorder, fileCount, audioMode>>
       /\ (Enters("handleRecord") /\ ~ZeroDuration /\ recorderState.isRecording) =>
              /\ recorder' = [recorder EXCEPT !.isRecording = FALSE]
              /\ UNCHANGED <<tasks, fileCount, audioMode>>
       /\ (Enters("handleRecord") /\ ~ZeroDuration /\ ~recorderState.isRecording) =>
              /\ recorder' = [recorder EXCEPT !.isRecording = TRUE]
              /\ UNCHANGED <<tasks, fileCount, audioMode>>
       /\ \A t \in BagToSet(tasks) :
              (t.op = "record" /\ t.pc = "mode" /\ tasks' = Become(t, [t EXCEPT !.pc = "prepare"])) =>
                  audioMode' = "recording" /\ UNCHANGED <<recorder, fileCount>>
       /\ fileCount' # fileCount =>
              /\ fileCount' = fileCount + 1
              /\ \E t \in BagToSet(tasks) :
                    t.op = "record" /\ t.pc = "prepare" /\ tasks' = Done(t)
              /\ recorder' = [isRecording |-> TRUE, durationMillis |-> 0]]_vars

C10_Witness ==
    /\ event = "handleRecord"
    /\ recorder.isRecording /\ recorder.durationMillis > 0
    /\ fileCount = 1

\* C11: when setAudioModeAsync or prepareToRecordAsync fails inside
\* handleRecord (the handler ends without having prepared a file), the
\* "Recording failed" alert is shown, capture is not started, and the
\* recorder's state and the Recording list are as they were.
C11_RecordFailure ==
    [][\A t \in BagToSet(tasks) :
          (t.op = "record" /\ tasks' = Done(t) /\ fileCount' = fileCount) =>
              /\ alert' = "Recording failed"
              /\ UNCHANGED <<recorder, recordings, players, playingId>>]_vars

C11_Witness ==
    /\ alert = "Recording failed"
    /\ ~recorder.isRecording /\ fileCount = 0
    /\ recordings = <<>> /\ tasks = EmptyBag

\* The alerts of a save that failed.
SaveErrors ==
    {"Error: No recording URI found", "Error: Failed to save recording",
     "Upload failed"}

\* C12: when a save ends without success (no Recording prepended, no
\* "Success"), one of the error alerts is shown, the list, the players and
\* the files are as they were, and the recorder is left as the save's stop
\* left it: stopped at duration 0 where the uri was missing, untouched by the
\* failing step where reading or uploading the file failed.
C12_SaveFailsAfterStop ==
    [][\A t \in BagToSet(tasks) :
          (/\ t.op \in {"save", "upload"}
           /\ tasks' = Done(t)
           /\ recordings' = recordings
           /\ alert' # "Success") =>
              /\ alert' \in SaveErrors
              /\ recorder' = IF alert' = "Error: No recording URI found"
                             THEN [isRecording |-> FALSE, durationMillis |-> 0]
                             ELSE recorder
              /\ (t.pc = "stop" => alert' # "Upload failed")
              /\ UNCHANGED <<recordings, players, playingId, fileCount>>]_vars

C12_Witness ==
    /\ variant = 1
    /\ alert = "Error: Failed to save recording"
    /\ fileCount = 1 /\ recorder = [isRecording |-> FALSE, durationMillis |-> 0]
    /\ recordings = <<>> /\ tasks = EmptyBag

\* C13: whenever capture starts or resumes, the audio mode last configured
\* is the recording one; whenever a player starts, it is the playback one.
C13_ModeBeforeAction ==
    [][/\ (recorder'.isRecording /\ ~recorder.isRecording) =>
              audioMode' = "recording"
       /\ (\E k \in 1..Len(players) : players'[k] = "playing" /\ players[k] # "playing") =>
              audioMode' = "playback"]_vars

\* C14: in variant 2 isUploading, once true, becomes false again, and so
\* does isLoading.
C14_BackToInteractive ==
    /\ (variant = 2 /\ isUploading) ~> ~isUploading
    /\ (variant = 2 /\ isLoading) ~> ~isLoading

C14_Witness ==
    /\ variant = 2 /\ session
    /\ alert = "Success" /\ ~isUploading /\ ~isLoading
    /\ tasks = EmptyBag

\* C15: in variant 1 one recording session, i.e. one prepared file, gives at
\* most one Recording of the list.
C15_OneRecordingPerSession ==
    variant = 1 =>
        \A i, j \in 1..Len(recordings) :
            i # j => recordings[i].uri # recordings[j].uri

====
